---- MODULE Spec2Model ----
(***************************************************************************)
(* A model of backend/crawler.py: the keyword file (load_keywords,         *)
(* save_keywords), keyword discovery (discover_new_keywords), the          *)
(* sequential breadth-first crawl (crawl) with the module-level run around *)
(* it, and the worker function crawl_single_page run by several threads.   *)
(*                                                                         *)
(* Abstractions.  A page text is the ordered dict `discovered` that the    *)
(* regular expressions of discover_new_keywords build from it (keyword,    *)
(* number of matches).  A link is its absolute href and the set of         *)
(* lower-case keywords that occur as substrings of "href.lower() text".    *)
(* The keyword file is its JSON value (or absent / empty / not JSON).      *)
(* Writes to the file system succeed unless the process dies in them.      *)
(***************************************************************************)
EXTENDS Integers, Sequences, FiniteSets, TLC

VARIABLES
    pc,                 \* position of the module-level run
    file,               \* data/keywords.json
    seed_urls,          \* configuration: the seed list
    max_depth,          \* configuration
    max_pages_per_run,  \* configuration (None: unlimited)
    keywords_list,      \* the in-memory vocabulary (one shared list object)
    keyword_counts,     \* dict keyword -> count
    queue,              \* deque of (url, depth)
    visited,            \* set of urls
    found_links,        \* list of urls
    pages_crawled,      \* counter
    cur,                \* the page being processed: url, depth, discovered items left
    wpc, wurl, wdisc, wlinks, wfound,   \* crawl_single_page workers
    keyword_lock,       \* 0: free, else the worker that holds it
    \* history (not program state)
    file0,              \* the file before the run
    fetchLog,           \* every requests.get issued: url, depth, status, who
    skipped,            \* tasks popped and skipped at line 167
    admitted,           \* keywords admitted by discover_new_keywords
    saveAttempt,        \* the last save_keywords call: file before, file intended
    lastRejected,       \* hrefs the last link scan left out because visited
    enqLog,             \* every queue.append of a link: task, parent page, keyword
    firstSaved          \* round trip: the file after the first save

histVars   == <<enqLog, firstSaved>>
crawlVars  == <<pc, seed_urls, max_depth, max_pages_per_run, queue, found_links,
                pages_crawled, cur, file0, skipped, lastRejected, histVars>>
workerVars == <<wpc, wurl, wdisc, wlinks, wfound, keyword_lock>>
sharedVars == <<file, keywords_list, keyword_counts, visited, fetchLog, admitted,
                saveAttempt>>
vars == <<crawlVars, workerVars, sharedVars>>

-----------------------------------------------------------------------------
(* Bounds of the model *)

MaxSeeds == 2
MaxDepthBound == 1
MaxBudget == 1
MaxDisc == 1
MaxLinks == 2
MaxFileLen == 1
NumWorkers == 2
MaxWorkerLinks == 1

(* Program constants *)

None == -1
min_keyword_frequency == 2
auto_discover_keywords == TRUE

URLS == {"a", "b", "c"}
HREFS == URLS \cup {"mailto:x"}

Scheme(href) == IF href \in URLS THEN "https" ELSE "mailto"

default_keywords ==
    <<"autonomous", "self-driving", "av", "lidar", "tesla", "waymo", "evs",
      "electric vehicle", "driverless", "autopilot", "robotaxi", "cruise">>

Range(s) == {s[i] : i \in 1..Len(s)}

\* str.lower() on the keywords of the model
Lower(k) == IF k = "Tesla" THEN "tesla" ELSE k

SeqsUpTo(S, n) == UNION {[1..m -> S] : m \in 0..n}

Distinct(s) == \A i, j \in 1..Len(s) : i # j => s[i] # s[j]

UrlOrder == <<"a", "b", "c">>

UrlIndex(u) == CHOOSE i \in 1..Len(UrlOrder) : UrlOrder[i] = u

\* The code tells no URL from another, so seed lists are taken up to a
\* renaming of the URLs: each entry is an earlier one or the next unused URL.
FirstUse(s) ==
    \A i \in 1..Len(s) :
        \/ \E j \in 1..(i - 1) : s[j] = s[i]
        \/ UrlIndex(s[i]) = Cardinality({s[j] : j \in 1..(i - 1)}) + 1

SEEDS == {s \in SeqsUpTo(URLS, MaxSeeds) : FirstUse(s)}

-----------------------------------------------------------------------------
(* The keyword file *)

AbsentFile == [kind |-> "absent", content |-> <<>>]
EmptyFile == [kind |-> "empty", content |-> <<>>]
PartialFile == [kind |-> "partial", content |-> <<>>]
ListFile(kws) == [kind |-> "list", content |-> kws]
DictFile(keys) == [kind |-> "dict", content |-> keys]

FileWords == {"Tesla"}

FILES ==
    {AbsentFile, EmptyFile, PartialFile, ListFile(default_keywords)}
    \cup {ListFile(c) : c \in SeqsUpTo(FileWords, MaxFileLen)}
    \cup {DictFile(c) : c \in {d \in SeqsUpTo(FileWords, MaxFileLen) : Distinct(d)}}

SaveOutcomes == {"ok", "truncated", "partial"}

\* save_keywords: open(KEYWORDS_FILE, 'w') truncates the file, json.dump then
\* writes the list; a process that dies in between leaves what is on disk.
save_keywords(kws, outcome) ==
    CASE outcome = "ok" -> ListFile(kws)
      [] outcome = "truncated" -> EmptyFile
      [] OTHER -> PartialFile

\* a faulty variant of AppendMissing: the defaults are appended without the
\* membership test
AppendMissing_NoTest(kws, defaults) == kws \o defaults

RECURSIVE AppendMissing(_, _)
\* for kw in default_keywords: if kw not in keywords_list: keywords_list.append(kw)
AppendMissing(kws, defaults) ==
    IF defaults = <<>> THEN kws
    ELSE AppendMissing(IF Head(defaults) \in Range(kws) THEN kws
                       ELSE Append(kws, Head(defaults)),
                       Tail(defaults))

\* a faulty variant of LoadedList: the old dict format is taken for a missing file
LoadedList_DropDict(f) == IF f.kind = "list" THEN f.content ELSE default_keywords

UsesDefaults(f) == f.kind \in {"absent", "empty"}

\* the list load_keywords builds before the defaults are ensured
LoadedList(f) == IF UsesDefaults(f) THEN default_keywords ELSE f.content

\* load_keywords saves when it bootstraps the file or converts the old format
LoadSaves(f) == UsesDefaults(f) \/ f.kind = "dict"

\* a faulty variant of load_keywords: the default keywords are not ensured
load_keywords_AsStored(f) == LoadedList(f)

\* what load_keywords returns
load_keywords(f) == AppendMissing(LoadedList(f), default_keywords)

-----------------------------------------------------------------------------
(* discover_new_keywords *)

\* keywords the patterns of keyword_discovery_patterns can produce (lower-cased
\* by line 90; all are longer than 2 characters, line 91)
DiscWords == {"machine learning", "autonomous driving"}

\* the number of matches of a discovered keyword: below the admission
\* threshold, or at it
Freqs == {min_keyword_frequency - 1, min_keyword_frequency}

DiscItems == [kw : DiscWords, freq : Freqs]

\* the dict `discovered` of a page text, in insertion order
DISCOVERED ==
    {d \in SeqsUpTo(DiscItems, MaxDisc) :
        \A i, j \in 1..Len(d) : i # j => d[i].kw # d[j].kw}

discovered_of(d) == IF auto_discover_keywords THEN d ELSE <<>>

\* line 97
Admissible(kws, item) ==
    item.freq >= min_keyword_frequency /\ item.kw \notin Range(kws)

\* a faulty variant of AdmitList: the list is rebound to the new keyword alone
AdmitList_Rebind(kws, kw) == <<kw>>

\* line 98: keywords_list.append(keyword)
AdmitList(kws, kw) == Append(kws, kw)

\* a faulty variant of AdmitSaved: the list is saved as it was before the append
AdmitSaved_Stale(kws, kw) == kws

\* line 102: save_keywords(keywords_list), the list after the append
AdmitSaved(kws, kw) == AdmitList(kws, kw)

\* line 99: keyword_counts[keyword] = freq
SetCount(counts, kw, n) ==
    [k \in DOMAIN counts \cup {kw} |-> IF k = kw THEN n ELSE counts[k]]

\* keyword_counts.get(keyword, 0)
GetCount(counts, kw) == IF kw \in DOMAIN counts THEN counts[kw] ELSE 0

-----------------------------------------------------------------------------
(* Links of a page *)

LinkWordSets == {{}, {"tesla"}, {"machine learning"}}

Links == [href : HREFS, words : LinkWordSets]

LINKSEQS == SeqsUpTo(Links, MaxLinks)

\* a faulty variant of FirstMatch: with no match the first keyword is taken
FirstMatch_Any(kws, words) ==
    LET hits == {i \in 1..Len(kws) : Lower(kws[i]) \in words}
    IN IF hits = {} THEN 1 ELSE CHOOSE i \in hits : \A j \in hits : i <= j

\* for keyword in keywords_list: if keyword.lower() in url_and_text: ... break
\* the index of the first keyword that matches, 0 when none does
FirstMatch(kws, words) ==
    LET hits == {i \in 1..Len(kws) : Lower(kws[i]) \in words}
    IN IF hits = {} THEN 0 ELSE CHOOSE i \in hits : \A j \in hits : i <= j

\* a faulty variant of LinkEligible: the visited check is missing
LinkEligible_NoVisited(href, vis) == Scheme(href) \in {"http", "https"}

\* line 195
LinkEligible(href, vis) == Scheme(href) \in {"http", "https"} /\ href \notin vis

Task(u, d) == [url |-> u, depth |-> d]

\* a faulty variant of Enqueue: the task is put at the front (appendleft)
Enqueue_Front(q, t) == <<t>> \o q

\* line 203: queue.append((href, depth + 1))
Enqueue(q, t) == Append(q, t)

\* history: one queue.append of a link found on page `parent`, the words of
\* the link and the keyword that matched it
EnqEntry(l, parent, depth, k) ==
    [url |-> l.href, depth |-> depth + 1, parent |-> parent, words |-> l.words,
     kw |-> k]

RECURSIVE ScanLinks(_, _, _, _, _, _)
\* lines 193-205: the loop over the anchors of page `parent` fetched at `depth`.
\* st carries the queue, the counts and (history) the matching links left out
\* because their href is visited, and the appends made.
ScanLinks(links, kws, vis, parent, depth, st) ==
    IF links = <<>> THEN st
    ELSE LET l == Head(links)
             m == FirstMatch(kws, l.words)
             k == kws[m]
             nxt ==
                 IF m = 0 THEN st
                 ELSE IF LinkEligible(l.href, vis)
                 THEN [st EXCEPT !.queue = Enqueue(@, Task(l.href, depth + 1)),
                                 !.counts = SetCount(@, k, GetCount(@, k) + 1),
                                 !.enq = @ \cup {EnqEntry(l, parent, depth, k)}]
                 ELSE IF l.href \in vis
                 THEN [st EXCEPT !.rejected = @ \cup {l.href}]
                 ELSE st
         IN ScanLinks(Tail(links), kws, vis, parent, depth, nxt)

-----------------------------------------------------------------------------
(* crawl and the module-level run *)

\* a faulty variant of BudgetLeft: off by one
BudgetLeft_OffByOne == max_pages_per_run = None \/ pages_crawled <= max_pages_per_run

\* line 165
BudgetLeft == max_pages_per_run = None \/ pages_crawled < max_pages_per_run

\* faulty variants of ShouldSkip: one of the two checks is missing
ShouldSkip_NoVisited(t) == t.depth > max_depth

ShouldSkip_NoDepth(t) == t.url \in visited

\* line 167
ShouldSkip(t) == t.url \in visited \/ t.depth > max_depth

\* a faulty variant of PopLeft: the head is read and left in the queue
PopLeft_Peek(q) == q

\* line 166: queue.popleft(), the queue it leaves
PopLeft(q) == Tail(q)

\* a faulty variant of MarkVisited: the url is not added
MarkVisited_Skip(vis, url) == vis

\* line 171
MarkVisited(vis, url) == vis \cup {url}

\* a faulty variant of CountPage: only a page that was fetched is counted
CountPage_OnSuccess(n, status) == IF status = "ok" THEN n + 1 ELSE n

\* line 173: pages_crawled += 1, before the request and whatever its status
CountPage(n, status) == n + 1

\* a faulty variant of FailedFetchQueue: the failed task is queued again for a retry
FailedFetchQueue_Retry(q, t) == Append(q, t)

\* lines 181-183 and 207-208: a failed fetch leaves the queue as it is
FailedFetchQueue(q, t) == q

\* a faulty variant of FollowsLinks: the links of a page at max_depth are followed
FollowsLinks_Inclusive(depth) == depth <= max_depth

\* line 192
FollowsLinks(depth) == depth < max_depth

\* the threads that run crawl_single_page (at most max_concurrent_requests)
Workers == 1..NumWorkers

NoPage == [url |-> "", depth |-> 0, disc |-> <<>>]

Crashed(o) == o # "ok"

\* the process died: what it held in memory is gone
MemoryLost ==
    /\ keywords_list' = <<>>
    /\ keyword_counts' = <<>>
    /\ queue' = <<>>
    /\ visited' = {}
    /\ found_links' = <<>>
    /\ pages_crawled' = 0
    /\ cur' = NoPage

\* lines 216 and 43-68
LoadKeywords ==
    /\ pc = "load"
    /\ file.kind # "partial"
    /\ \E o \in (IF LoadSaves(file) THEN SaveOutcomes ELSE {"ok"}) :
        /\ file' = IF LoadSaves(file) THEN save_keywords(LoadedList(file), o) ELSE file
        /\ saveAttempt' = IF LoadSaves(file)
                          THEN [old |-> file, new |-> ListFile(LoadedList(file))]
                          ELSE saveAttempt
        /\ IF Crashed(o)
           THEN pc' = "crashed" /\ UNCHANGED keywords_list
           ELSE pc' = "crawl" /\ keywords_list' = load_keywords(file)
    /\ UNCHANGED <<seed_urls, max_depth, max_pages_per_run, keyword_counts, queue,
                   visited, found_links, pages_crawled, cur, file0, fetchLog,
                   skipped, admitted, lastRejected, workerVars, histVars>>

\* line 55: json.load raises on a file that is not JSON; nothing catches it
LoadRaises ==
    /\ pc = "load"
    /\ file.kind = "partial"
    /\ pc' = "aborted"
    /\ UNCHANGED <<seed_urls, max_depth, max_pages_per_run, queue, found_links,
                   pages_crawled, cur, file0, skipped, lastRejected, workerVars, histVars,
                   sharedVars>>

\* lines 159-163
CrawlStart ==
    /\ pc = "crawl"
    /\ keyword_counts' = [kw \in Range(keywords_list) |-> 0]
    /\ queue' = [i \in 1..Len(seed_urls) |-> Task(seed_urls[i], 0)]
    /\ visited' = {}
    /\ found_links' = <<>>
    /\ pages_crawled' = 0
    /\ pc' = "loop"
    /\ UNCHANGED <<seed_urls, max_depth, max_pages_per_run, cur, file0, skipped,
                   lastRejected, workerVars, histVars, file, keywords_list, fetchLog,
                   admitted, saveAttempt>>

\* lines 166-168: a popped task that is visited or too deep is dropped
PopSkip ==
    /\ pc = "loop"
    /\ queue # <<>> /\ BudgetLeft
    /\ ShouldSkip(Head(queue))
    /\ queue' = PopLeft(queue)
    /\ skipped' = skipped \cup {Head(queue)}
    /\ UNCHANGED <<pc, seed_urls, max_depth, max_pages_per_run, found_links,
                   pages_crawled, cur, file0, lastRejected, workerVars, histVars, sharedVars>>

\* history: one requests.get, whether it gave a parsed page, and whether the
\* url was in the visited set `vis` when the request was issued
LogEntry(url, depth, status, who, vis) ==
    [url |-> url, depth |-> depth, ok |-> (status = "ok"), who |-> who,
     marked |-> url \in vis]

\* lines 166-183, 207-208: the fetch fails (status not 200, or requests.get or
\* the parser raises)
PopFetchFail ==
    /\ pc = "loop"
    /\ queue # <<>> /\ BudgetLeft
    /\ ~ShouldSkip(Head(queue))
    /\ \E status \in {"non200", "exception"} :
        /\ fetchLog' = Append(fetchLog,
                              LogEntry(Head(queue).url, Head(queue).depth, status, 0,
                                       MarkVisited(visited, Head(queue).url)))
        /\ pages_crawled' = CountPage(pages_crawled, status)
    /\ visited' = MarkVisited(visited, Head(queue).url)
    /\ found_links' = Append(found_links, Head(queue).url)
    /\ queue' = FailedFetchQueue(PopLeft(queue), Head(queue))
    /\ lastRejected' = {}
    /\ UNCHANGED <<pc, seed_urls, max_depth, max_pages_per_run, cur, file0, skipped,
                   workerVars, histVars, file, keywords_list, keyword_counts, admitted,
                   saveAttempt>>

\* lines 166-186: the fetch returns 200 and the page is parsed
PopFetchOk ==
    /\ pc = "loop"
    /\ queue # <<>> /\ BudgetLeft
    /\ ~ShouldSkip(Head(queue))
    /\ fetchLog' = Append(fetchLog, LogEntry(Head(queue).url, Head(queue).depth, "ok", 0,
                                          MarkVisited(visited, Head(queue).url)))
    /\ visited' = MarkVisited(visited, Head(queue).url)
    /\ found_links' = Append(found_links, Head(queue).url)
    /\ pages_crawled' = CountPage(pages_crawled, "ok")
    /\ queue' = PopLeft(queue)
    /\ \E d \in DISCOVERED :
        cur' = [url |-> Head(queue).url, depth |-> Head(queue).depth,
                disc |-> discovered_of(d)]
    /\ lastRejected' = {}
    /\ pc' = "discover"
    /\ UNCHANGED <<seed_urls, max_depth, max_pages_per_run, file0, skipped,
                   workerVars, histVars, file, keywords_list, keyword_counts, admitted,
                   saveAttempt>>

\* lines 96-102: the next discovered keyword is admitted and the list saved
DiscoverAdmit ==
    /\ pc = "discover"
    /\ cur.disc # <<>>
    /\ Admissible(keywords_list, Head(cur.disc))
    /\ admitted' = admitted \cup {Head(cur.disc).kw}
    /\ saveAttempt' = [old |-> file,
                       new |-> ListFile(AdmitSaved(keywords_list, Head(cur.disc).kw))]
    /\ \E o \in SaveOutcomes :
        /\ file' = save_keywords(AdmitSaved(keywords_list, Head(cur.disc).kw), o)
        /\ IF Crashed(o)
           THEN pc' = "crashed" /\ MemoryLost
           ELSE /\ pc' = pc
                /\ keywords_list' = AdmitList(keywords_list, Head(cur.disc).kw)
                /\ keyword_counts' = SetCount(keyword_counts, Head(cur.disc).kw,
                                              Head(cur.disc).freq)
                /\ cur' = [cur EXCEPT !.disc = Tail(@)]
                /\ UNCHANGED <<queue, visited, found_links, pages_crawled>>
    /\ UNCHANGED <<seed_urls, max_depth, max_pages_per_run, file0, fetchLog, skipped,
                   lastRejected, workerVars, histVars>>

\* lines 96-97: the next discovered keyword is too rare or already tracked
DiscoverSkip ==
    /\ pc = "discover"
    /\ cur.disc # <<>>
    /\ ~Admissible(keywords_list, Head(cur.disc))
    /\ cur' = [cur EXCEPT !.disc = Tail(@)]
    /\ UNCHANGED <<pc, seed_urls, max_depth, max_pages_per_run, queue, found_links,
                   pages_crawled, file0, skipped, lastRejected, workerVars, histVars,
                   sharedVars>>

\* lines 191-208: the links of the page are scanned.  An exception raised inside
\* the loop ends the scan after a prefix of the links and is caught at line 207;
\* every prefix is itself one of LINKSEQS.
CollectLinks ==
    /\ pc = "discover"
    /\ cur.disc = <<>>
    /\ \E links \in LINKSEQS :
        LET st0 == [queue |-> queue, counts |-> keyword_counts, rejected |-> {},
                    enq |-> enqLog]
            st == IF FollowsLinks(cur.depth)
                  THEN ScanLinks(links, keywords_list, visited, cur.url, cur.depth, st0)
                  ELSE st0
        IN /\ queue' = st.queue
           /\ keyword_counts' = st.counts
           /\ lastRejected' = st.rejected
           /\ enqLog' = st.enq
    /\ cur' = NoPage
    /\ pc' = "loop"
    /\ UNCHANGED <<seed_urls, max_depth, max_pages_per_run, visited, found_links,
                   pages_crawled, file0, fetchLog, skipped, admitted, saveAttempt,
                   file, keywords_list, workerVars, firstSaved>>

\* lines 165 and 210: the loop ends, crawl returns
ExitLoop ==
    /\ pc = "loop"
    /\ ~(queue # <<>> /\ BudgetLeft)
    /\ pc' = "save"
    /\ UNCHANGED <<seed_urls, max_depth, max_pages_per_run, queue, found_links,
                   pages_crawled, cur, file0, skipped, lastRejected, workerVars, histVars,
                   sharedVars>>

\* line 220
FinalSave ==
    /\ pc = "save"
    /\ saveAttempt' = [old |-> file, new |-> ListFile(keywords_list)]
    /\ \E o \in SaveOutcomes :
        /\ file' = save_keywords(keywords_list, o)
        /\ IF Crashed(o)
           THEN pc' = "crashed" /\ MemoryLost
           ELSE pc' = "done" /\ UNCHANGED <<keywords_list, keyword_counts, queue,
                                             visited, found_links, pages_crawled, cur>>
    /\ UNCHANGED <<seed_urls, max_depth, max_pages_per_run, file0, skipped,
                   lastRejected, workerVars, histVars, fetchLog, admitted>>

WorkersIdle ==
    /\ wpc = [w \in Workers |-> "idle"]
    /\ wurl = [w \in Workers |-> ""]
    /\ wdisc = [w \in Workers |-> <<>>]
    /\ wlinks = [w \in Workers |-> 0]
    /\ wfound = [w \in Workers |-> <<>>]
    /\ keyword_lock = 0

Init ==
    /\ pc = "load"
    /\ file \in FILES
    /\ file0 = file
    /\ seed_urls \in SEEDS
    /\ max_depth \in -1..MaxDepthBound
    /\ max_pages_per_run \in {None} \cup 0..MaxBudget
    /\ keywords_list = <<>>
    /\ keyword_counts = <<>>
    /\ queue = <<>>
    /\ visited = {}
    /\ found_links = <<>>
    /\ pages_crawled = 0
    /\ cur = NoPage
    /\ fetchLog = <<>>
    /\ skipped = {}
    /\ admitted = {}
    /\ saveAttempt = [old |-> file, new |-> file]
    /\ lastRejected = {}
    /\ enqLog = {}
    /\ firstSaved = file
    /\ WorkersIdle

Next ==
    \/ LoadKeywords
    \/ LoadRaises
    \/ CrawlStart
    \/ PopSkip
    \/ PopFetchFail
    \/ PopFetchOk
    \/ DiscoverAdmit
    \/ DiscoverSkip
    \/ CollectLinks
    \/ ExitLoop
    \/ FinalSave

Spec == Init /\ [][Next]_vars

\* lines 165-210: one step of the loop of crawl(), or its exit
CrawlStep ==
    \/ PopSkip
    \/ PopFetchFail
    \/ PopFetchOk
    \/ DiscoverAdmit
    \/ DiscoverSkip
    \/ CollectLinks
    \/ ExitLoop

\* crawl() is one thread that goes on while it has a step to take; a request
\* returns or raises within its timeout (line 178)
FairSpec == Spec /\ WF_vars(CrawlStep)

-----------------------------------------------------------------------------
(* crawl_single_page, run by several threads on one shared visited set, one    *)
(* shared keywords_list and one shared keyword_counts                          *)

SetAt(f, w, v) == [f EXCEPT ![w] = v]

\* lines 110-111
AlreadyVisited(url, vis) == url \in vis

\* lines 110-111: the url is in visited, the worker returns at once
W_Return(w) ==
    /\ wpc[w] = "start"
    /\ AlreadyVisited(wurl[w], visited)
    /\ wpc' = SetAt(wpc, w, "returned")
    /\ UNCHANGED <<wurl, wdisc, wlinks, wfound, keyword_lock, crawlVars, sharedVars>>

\* lines 110-113: the url is not in visited, the worker goes on to the request
\* (crawl_single_page never adds the url to visited)
W_Pass(w) ==
    /\ wpc[w] = "start"
    /\ ~AlreadyVisited(wurl[w], visited)
    /\ wpc' = SetAt(wpc, w, "request")
    /\ UNCHANGED <<wurl, wdisc, wlinks, wfound, keyword_lock, crawlVars, sharedVars>>

\* lines 115-121, 149-151: requests.get fails
W_FetchFail(w) ==
    /\ wpc[w] = "request"
    /\ \E status \in {"non200", "exception"} :
        fetchLog' = Append(fetchLog, LogEntry(wurl[w], 0, status, w, visited))
    /\ wpc' = SetAt(wpc, w, "returned")
    /\ UNCHANGED <<wurl, wdisc, wlinks, wfound, keyword_lock, crawlVars, file,
                   keywords_list, keyword_counts, visited, admitted, saveAttempt>>

\* lines 115-124 and 83-92: requests.get returns 200, the page is parsed and
\* its text matched against the patterns (no lock held)
W_FetchOk(w) ==
    /\ wpc[w] = "request"
    /\ fetchLog' = Append(fetchLog, LogEntry(wurl[w], 0, "ok", w, visited))
    /\ \E d \in DISCOVERED : wdisc' = SetAt(wdisc, w, discovered_of(d))
    /\ \E n \in 0..MaxWorkerLinks : wlinks' = SetAt(wlinks, w, n)
    /\ wpc' = SetAt(wpc, w, "discover")
    /\ UNCHANGED <<wurl, wfound, keyword_lock, crawlVars, file, keywords_list,
                   keyword_counts, visited, admitted, saveAttempt>>

\* a faulty variant of LockFree: the lock is taken whoever holds it
LockFree_Ignored == TRUE

\* lines 40-41, 95 and 143: threading.Lock() can be acquired when no thread
\* holds it
LockFree == keyword_lock = 0

\* line 95: with keyword_lock
W_Lock(w) ==
    /\ wpc[w] = "discover"
    /\ LockFree
    /\ keyword_lock' = w
    /\ wpc' = SetAt(wpc, w, "admit")
    /\ UNCHANGED <<wurl, wdisc, wlinks, wfound, crawlVars, sharedVars>>

\* line 97, under the lock: the next discovered keyword is frequent enough
\* and not in the list
W_Admit(w) ==
    /\ wpc[w] = "admit"
    /\ wdisc[w] # <<>>
    /\ Admissible(keywords_list, Head(wdisc[w]))
    /\ wpc' = SetAt(wpc, w, "append")
    /\ UNCHANGED <<wurl, wdisc, wlinks, wfound, keyword_lock, crawlVars, sharedVars>>

\* lines 98-99, under the lock
W_Append(w) ==
    /\ wpc[w] = "append"
    /\ keywords_list' = AdmitList(keywords_list, Head(wdisc[w]).kw)
    /\ keyword_counts' = SetCount(keyword_counts, Head(wdisc[w]).kw, Head(wdisc[w]).freq)
    /\ admitted' = admitted \cup {Head(wdisc[w]).kw}
    /\ wpc' = SetAt(wpc, w, "save")
    /\ UNCHANGED <<wurl, wdisc, wlinks, wfound, keyword_lock, crawlVars, file, visited,
                   fetchLog, saveAttempt>>

\* line 102, under the lock: save_keywords writes the shared list as it is now
W_Save(w) ==
    /\ wpc[w] = "save"
    /\ saveAttempt' = [old |-> file, new |-> ListFile(keywords_list)]
    /\ file' = save_keywords(keywords_list, "ok")
    /\ wdisc' = SetAt(wdisc, w, Tail(wdisc[w]))
    /\ wpc' = SetAt(wpc, w, "admit")
    /\ UNCHANGED <<wurl, wlinks, wfound, keyword_lock, crawlVars, keywords_list,
                   keyword_counts, visited, fetchLog, admitted>>

\* lines 96-97, under the lock
W_SkipCandidate(w) ==
    /\ wpc[w] = "admit"
    /\ wdisc[w] # <<>>
    /\ ~Admissible(keywords_list, Head(wdisc[w]))
    /\ wdisc' = SetAt(wdisc, w, Tail(wdisc[w]))
    /\ UNCHANGED <<wpc, wurl, wlinks, wfound, keyword_lock, crawlVars, sharedVars>>

\* lines 103-104: the lock is released, discover_new_keywords returns
W_Unlock(w) ==
    /\ wpc[w] = "admit"
    /\ wdisc[w] = <<>>
    /\ keyword_lock' = 0
    /\ wpc' = SetAt(wpc, w, "links")
    /\ UNCHANGED <<wurl, wdisc, wlinks, wfound, crawlVars, sharedVars>>

\* lines 132-145: the next anchor matches a keyword; the count is updated
\* under the lock and the href collected
W_LinkMatch(w) ==
    /\ wpc[w] = "links"
    /\ wlinks[w] > 0
    /\ LockFree
    /\ \E l \in Links :
        LET m == FirstMatch(keywords_list, l.words)
        IN /\ Scheme(l.href) \in {"http", "https"}
           /\ m # 0
           /\ keyword_counts' = SetCount(keyword_counts, keywords_list[m],
                                         GetCount(keyword_counts, keywords_list[m]) + 1)
           /\ wfound' = SetAt(wfound, w, Append(wfound[w], l.href))
    /\ wlinks' = SetAt(wlinks, w, wlinks[w] - 1)
    /\ UNCHANGED <<wpc, wurl, wdisc, keyword_lock, crawlVars, file, keywords_list,
                   visited, fetchLog, admitted, saveAttempt>>

\* lines 132-140: the next anchor has another scheme or matches no keyword
W_LinkPass(w) ==
    /\ wpc[w] = "links"
    /\ wlinks[w] > 0
    /\ \E l \in Links :
        Scheme(l.href) \notin {"http", "https"} \/ FirstMatch(keywords_list, l.words) = 0
    /\ wlinks' = SetAt(wlinks, w, wlinks[w] - 1)
    /\ UNCHANGED <<wpc, wurl, wdisc, wfound, keyword_lock, crawlVars, sharedVars>>

\* line 147
W_Done(w) ==
    /\ wpc[w] = "links"
    /\ wlinks[w] = 0
    /\ wpc' = SetAt(wpc, w, "returned")
    /\ UNCHANGED <<wurl, wdisc, wlinks, wfound, keyword_lock, crawlVars, sharedVars>>

\* the shared visited set when the workers start
WorkerVisited == SUBSET {"a"}

InitWorkers ==
    /\ pc = "workers"
    /\ file = ListFile(default_keywords)
    /\ file0 = file
    /\ seed_urls = <<>>
    /\ max_depth = 1
    /\ max_pages_per_run = None
    /\ keywords_list = default_keywords
    /\ keyword_counts = [kw \in Range(default_keywords) |-> 0]
    /\ queue = <<>>
    /\ visited \in WorkerVisited
    /\ found_links = <<>>
    /\ pages_crawled = 0
    /\ cur = NoPage
    /\ fetchLog = <<>>
    /\ skipped = {}
    /\ admitted = {}
    /\ saveAttempt = [old |-> file, new |-> file]
    /\ lastRejected = {}
    /\ enqLog = {}
    /\ firstSaved = file
    /\ wpc = [w \in Workers |-> "start"]
    /\ wurl \in [Workers -> URLS]
    /\ wdisc = [w \in Workers |-> <<>>]
    /\ wlinks = [w \in Workers |-> 0]
    /\ wfound = [w \in Workers |-> <<>>]
    /\ keyword_lock = 0

NextWorkers ==
    \E w \in Workers :
        \/ W_Return(w)
        \/ W_Pass(w)
        \/ W_FetchFail(w)
        \/ W_FetchOk(w)
        \/ W_Lock(w)
        \/ W_Admit(w)
        \/ W_Append(w)
        \/ W_Save(w)
        \/ W_SkipCandidate(w)
        \/ W_Unlock(w)
        \/ W_LinkMatch(w)
        \/ W_LinkPass(w)
        \/ W_Done(w)

SpecWorkers == InitWorkers /\ [][NextWorkers]_vars

-----------------------------------------------------------------------------
(* The persistence round trip: load_keywords, save_keywords of what it      *)
(* returned, and the same again on the file that leaves                      *)

\* keywords a stored file may hold: capitalised, discovered earlier
RoundTripWords == FileWords \cup DiscWords

RoundTripFiles ==
    FILES
    \cup {ListFile(c) : c \in SeqsUpTo(RoundTripWords, MaxFileLen + 1)}
    \cup {DictFile(c) : c \in {d \in SeqsUpTo(RoundTripWords, MaxFileLen + 1) :
                                    Distinct(d)}}

Rounds == 1..2

LoadPc(n) == IF n = 1 THEN "rt_load1" ELSE "rt_load2"

SavePc(n) == IF n = 1 THEN "rt_save1" ELSE "rt_save2"

roundTripFixed ==
    <<seed_urls, max_depth, max_pages_per_run, keyword_counts, queue, visited,
      found_links, pages_crawled, cur, file0, fetchLog, skipped, admitted,
      lastRejected, enqLog, workerVars>>

\* lines 43-68, as in LoadKeywords
RT_Load(n) ==
    /\ pc = LoadPc(n)
    /\ file.kind # "partial"
    /\ \E o \in (IF LoadSaves(file) THEN SaveOutcomes ELSE {"ok"}) :
        /\ file' = IF LoadSaves(file) THEN save_keywords(LoadedList(file), o) ELSE file
        /\ saveAttempt' = IF LoadSaves(file)
                          THEN [old |-> file, new |-> ListFile(LoadedList(file))]
                          ELSE saveAttempt
        /\ IF Crashed(o)
           THEN pc' = "crashed" /\ keywords_list' = <<>>
           ELSE pc' = SavePc(n) /\ keywords_list' = load_keywords(file)
    /\ UNCHANGED <<roundTripFixed, firstSaved>>

\* line 55: json.load raises
RT_LoadRaises(n) ==
    /\ pc = LoadPc(n)
    /\ file.kind = "partial"
    /\ pc' = "aborted"
    /\ UNCHANGED <<roundTripFixed, firstSaved, file, keywords_list, saveAttempt>>

\* lines 70-74, called with the list load_keywords returned
RT_Save(n) ==
    /\ pc = SavePc(n)
    /\ saveAttempt' = [old |-> file, new |-> ListFile(keywords_list)]
    /\ \E o \in SaveOutcomes :
        /\ file' = save_keywords(keywords_list, o)
        /\ IF Crashed(o)
           THEN /\ pc' = "crashed"
                /\ keywords_list' = <<>>
                /\ UNCHANGED firstSaved
           ELSE /\ pc' = IF n = 1 THEN LoadPc(2) ELSE "rt_done"
                /\ firstSaved' = IF n = 1 THEN file' ELSE firstSaved
                /\ UNCHANGED keywords_list
    /\ UNCHANGED roundTripFixed

InitRoundTrip ==
    /\ pc = LoadPc(1)
    /\ file \in RoundTripFiles
    /\ file0 = file
    /\ firstSaved = file
    /\ seed_urls = <<>>
    /\ max_depth = 0
    /\ max_pages_per_run = None
    /\ keywords_list = <<>>
    /\ keyword_counts = <<>>
    /\ queue = <<>>
    /\ visited = {}
    /\ found_links = <<>>
    /\ pages_crawled = 0
    /\ cur = NoPage
    /\ fetchLog = <<>>
    /\ skipped = {}
    /\ admitted = {}
    /\ saveAttempt = [old |-> file, new |-> file]
    /\ lastRejected = {}
    /\ enqLog = {}
    /\ WorkersIdle

NextRoundTrip ==
    \E n \in Rounds :
        \/ RT_Load(n)
        \/ RT_LoadRaises(n)
        \/ RT_Save(n)

SpecRoundTrip == InitRoundTrip /\ [][NextRoundTrip]_vars

-----------------------------------------------------------------------------
(* Properties *)

FetchCount(u) == Cardinality({i \in 1..Len(fetchLog) : fetchLog[i].url = u})

\* the tasks a step appends to the queue
NewTasks ==
    IF Len(queue') > Len(queue)
    THEN {queue'[i] : i \in (Len(queue) + 1)..Len(queue')}
    ELSE {}

\* the step issues a request that fails
FailedStep ==
    /\ Len(fetchLog') = Len(fetchLog) + 1
    /\ ~fetchLog'[Len(fetchLog')].ok

FailedUrls == {fetchLog[i].url : i \in {j \in 1..Len(fetchLog) : ~fetchLog[j].ok}}

FileKeywords(f) == IF f.kind \in {"list", "dict"} THEN Range(f.content) ELSE {}

\* C1: in one run of crawl() every URL is fetched at most once.
C1_FetchedAtMostOnce == \A u \in URLS : FetchCount(u) <= 1

\* a task was popped again for a URL that had been fetched, and was dropped
C1_Witness ==
    \E t \in skipped : t.depth <= max_depth /\ FetchCount(t.url) = 1

\* C2: workers that run crawl_single_page on the same URL with one shared
\* visited set issue at most one request for it.
C2_NoDuplicateRequest ==
    \A i, j \in 1..Len(fetchLog) :
        (fetchLog[i].url = fetchLog[j].url) => i = j

\* C3: every fetch of crawl() is for a task of depth 0..max_depth (so none
\* when max_depth < 0).
C3_DepthBound ==
    \A i \in 1..Len(fetchLog) : fetchLog[i].depth \in 0..max_depth

\* a run in which tasks were popped with depth > max_depth and none was fetched
C3_Witness ==
    /\ pc = "done"
    /\ \E t \in skipped : t.depth > max_depth
    /\ fetchLog = <<>>

\* C4: with a page budget N the run issues at most N requests.
C4_BudgetIsHardStop ==
    max_pages_per_run # None => Len(fetchLog) <= max_pages_per_run

\* the run ended on the budget with tasks still queued
C4_Witness ==
    /\ pc = "done"
    /\ max_pages_per_run = 1
    /\ Len(fetchLog) = 1
    /\ queue # <<>>

\* C5 as stated: with max_pages_per_run = 0 a full run fetches nothing and
\* leaves the keyword file as it was before the run.
C5_FileUnchanged ==
    (pc = "done" /\ max_pages_per_run = 0) => (fetchLog = <<>> /\ file = file0)

\* the keywords of the file before the run, then the default keywords it lacks
C5_Expected ==
    LET old == IF file0.kind \in {"list", "dict"} THEN file0.content ELSE <<>>
        Lacking(k) == k \notin Range(old)
    IN old \o SelectSeq(default_keywords, Lacking)

\* C5 amended: with max_pages_per_run = 0 a full run fetches nothing and
\* leaves in the file the list of the keywords it held before (the entries of
\* a list, the keys of a dict) followed by the default keywords it lacked; the
\* file is unchanged exactly when it held a list with every default keyword.
C5_FileBootstrapped ==
    (pc = "done" /\ max_pages_per_run = 0) =>
        /\ fetchLog = <<>>
        /\ file = ListFile(C5_Expected)
        /\ (file = file0) <=>
               (file0.kind = "list" /\ Range(default_keywords) \subseteq Range(file0.content))

\* a run with budget 0 and seeds, on a file in the old dict format
C5_Witness ==
    /\ pc = "done"
    /\ max_pages_per_run = 0
    /\ seed_urls # <<>>
    /\ file0 = DictFile(<<"Tesla">>)

\* C6: no call of discover_new_keywords removes a keyword from the vocabulary
\* or shortens it, and the file at the end of a full run holds every keyword
\* the file held at its start.
C6_VocabularyNeverShrinks ==
    /\ [][(pc = "discover" /\ pc' # "crashed") =>
            /\ Range(keywords_list) \subseteq Range(keywords_list')
            /\ Len(keywords_list) <= Len(keywords_list')]_vars
    /\ [](pc = "done" => FileKeywords(file0) \subseteq FileKeywords(file))

\* a full run that started with a non-default keyword in the file and admitted one
C6_Witness ==
    /\ pc = "done"
    /\ "Tesla" \in FileKeywords(file0)
    /\ admitted # {}

\* C7: after a keyword is admitted the file holds the whole in-memory
\* vocabulary, that keyword included, wherever the run stands afterwards.
C7_WriteThrough ==
    (admitted # {} /\ pc \in {"loop", "discover", "save", "done"}) =>
        /\ file = ListFile(keywords_list)
        /\ admitted \subseteq Range(file.content)

\* between two pages, after admissions on two earlier pages, of a run whose
\* file lacked the default keywords
C7_Witness ==
    /\ pc = "loop"
    /\ Cardinality(admitted) = 2
    /\ file0 = ListFile(<<>>)
    /\ queue # <<>>

\* C8: after a crash the file holds the complete content it had before the
\* save that was under way, or the complete content that save was writing.
C8_AtomicSave ==
    pc = "crashed" => file \in {saveAttempt.old, saveAttempt.new}

\* C9: a failed fetch leaves the run in its loop, admits no keyword, writes
\* nothing and enqueues nothing; a URL whose fetch failed is never fetched
\* again and never appended to the queue again.
C9_FailedFetchIsTerminal ==
    /\ [][/\ FailedStep =>
                /\ pc' = "loop"
                /\ keywords_list' = keywords_list
                /\ file' = file
                /\ queue' = Tail(queue)
          /\ \A t \in NewTasks : t.url \notin FailedUrls]_vars
    /\ [](\A u \in FailedUrls : FetchCount(u) = 1)

\* the run went on to another page after a failed fetch, and that page linked
\* back to the failed URL
C9_Witness ==
    /\ pc = "loop"
    /\ \E i \in 1..Len(fetchLog) :
        /\ ~fetchLog[i].ok
        /\ i < Len(fetchLog)
        /\ fetchLog[i].url \in lastRejected

\* C10: no task is appended to the queue for a URL that is in visited, and
\* visited only grows while crawl() runs.
C10_VisitedNeverEnqueued ==
    [][pc' # "crashed" =>
        /\ visited \subseteq visited'
        /\ \A t \in NewTasks : t.url \notin visited']_vars

\* a page linked to a visited URL with a matching keyword and the link was
\* left out, while links to other URLs are queued
C10_Witness ==
    /\ pc = "loop"
    /\ lastRejected # {}
    /\ \E i \in 1..Len(queue) : queue[i].depth = 1

\* the run holds a vocabulary in memory
Running == pc \in {"crawl", "loop", "discover", "save", "done"}

\* C11: no two entries of the vocabulary are equal when lower-cased.
C11_NoCaseInsensitiveDuplicates ==
    Running =>
        \A i, j \in 1..Len(keywords_list) :
            i # j => Lower(keywords_list[i]) # Lower(keywords_list[j])

\* C12: load_keywords does not raise on an absent, empty, list or dict file,
\* and the vocabulary it returns, and every later vocabulary of the run,
\* holds every default keyword.
C12_DefaultsAreFloor ==
    /\ file0.kind \in {"absent", "empty", "list", "dict"} => pc # "aborted"
    /\ Running => Range(default_keywords) \subseteq Range(keywords_list)

\* a full run on an old-format file without default keywords that admitted
\* a keyword
C12_Witness ==
    /\ pc = "done"
    /\ file0 = DictFile(<<"Tesla">>)
    /\ admitted # {}

\* C13: for every keyword file that loads, load, save, load and save again
\* leave the file the first save left.
C13_RoundTripIdempotent ==
    pc = "rt_done" => file = firstSaved /\ file = ListFile(load_keywords(file0))

C13_Witness ==
    /\ pc = "rt_done"
    /\ file0 = DictFile(<<"Tesla", "machine learning">>)

\* the index of the first occurrence of u in the seed list
SeedIndex(u) ==
    CHOOSE i \in 1..Len(seed_urls) :
        seed_urls[i] = u /\ \A j \in 1..(i - 1) : seed_urls[j] # u

\* C14: the depths of the fetches of a run are non-decreasing, and the seeds
\* are fetched in the order of the seed list, none passed over.
C14_BreadthFirst ==
    /\ \A i, j \in 1..Len(fetchLog) :
          i < j => fetchLog[i].depth <= fetchLog[j].depth
    /\ \A j \in 1..Len(fetchLog) :
          fetchLog[j].depth = 0 =>
              /\ fetchLog[j].url \in Range(seed_urls)
              /\ \A k \in 1..(SeedIndex(fetchLog[j].url) - 1) :
                    \E i \in 1..(j - 1) :
                        fetchLog[i].depth = 0 /\ fetchLog[i].url = seed_urls[k]

\* two seeds were fetched in order, the first had queued a link before the
\* second was fetched, and the linked page was fetched after both
C14_Witness ==
    /\ Len(seed_urls) = 2
    /\ Len(fetchLog) = 3
    /\ fetchLog[1].url = seed_urls[1] /\ fetchLog[1].depth = 0
    /\ fetchLog[2].url = seed_urls[2] /\ fetchLog[2].depth = 0
    /\ fetchLog[3].depth = 1
    /\ \E e \in enqLog : e.parent = seed_urls[1] /\ e.url = fetchLog[3].url

\* the step issues a request
FetchStep == Len(fetchLog') = Len(fetchLog) + 1

LastFetch == fetchLog[Len(fetchLog)]

\* C15: a task at depth max_depth is fetched when the budget permits, none of
\* the links of its page is queued, and (for max_depth >= 0) every queued task
\* has depth <= max_depth.
C15_MaxDepthInclusive ==
    /\ [](max_depth >= 0 => \A i \in 1..Len(queue) : queue[i].depth <= max_depth)
    /\ [][/\ (/\ pc = "loop"
               /\ queue # <<>>
               /\ BudgetLeft
               /\ Head(queue).depth = max_depth
               /\ Head(queue).url \notin visited)
              => (/\ FetchStep
                  /\ fetchLog'[Len(fetchLog')].url = Head(queue).url
                  /\ fetchLog'[Len(fetchLog')].depth = max_depth)
          /\ (pc = "discover" /\ cur.depth = max_depth /\ pc' # "crashed")
              => queue' = queue]_vars

\* a page of depth max_depth = 1 was fetched with status 200 and its links
\* were passed over while another task waits
C15_Witness ==
    /\ pc = "loop"
    /\ max_depth = 1
    /\ fetchLog # <<>>
    /\ LastFetch.depth = 1 /\ LastFetch.ok
    /\ queue # <<>>

\* C16: no request is issued for a URL that is not in visited, and the step
\* that issues the request is the one step that adds the URL to visited.
C16_MarkedBeforeFetch ==
    /\ [](\A i \in 1..Len(fetchLog) : fetchLog[i].marked)
    /\ [][FetchStep =>
            /\ fetchLog'[Len(fetchLog')].url \notin visited
            /\ visited' = visited \cup {fetchLog'[Len(fetchLog')].url}]_vars
    /\ [][(~FetchStep /\ pc' # "crashed") => visited' = visited]_vars

\* two URLs were fetched, the second after a failed first
C16_Witness ==
    /\ pc = "loop"
    /\ Len(fetchLog) = 2
    /\ ~fetchLog[1].ok
    /\ Cardinality(visited) = 2
    /\ \A i \in 1..2 : fetchLog[i].marked

\* the crawl loop is running or has ended without the process dying
InCrawl == pc \in {"loop", "discover", "save", "done"}

\* the task (u, d) was queued for a link of a page that was fetched with status
\* 200 at depth d - 1 before the first n requests were over, and the link held
\* a keyword
QueuedFromPage(u, d, n) ==
    \E e \in enqLog :
        /\ e.url = u
        /\ e.depth = d
        /\ Lower(e.kw) \in e.words
        /\ \E j \in 1..n :
            /\ fetchLog[j].url = e.parent
            /\ fetchLog[j].ok
            /\ fetchLog[j].depth = d - 1

\* C19: every fetched URL, and every queued task, is a seed or was queued
\* from a page fetched with status 200 at depth one less, for a link that held
\* a keyword the vocabulary had when the link was scanned; a link that holds
\* no keyword is never queued.
C19_FetchedBecauseRelevant ==
    /\ [](\A i \in 1..Len(fetchLog) :
            \/ fetchLog[i].depth = 0 /\ fetchLog[i].url \in Range(seed_urls)
            \/ QueuedFromPage(fetchLog[i].url, fetchLog[i].depth, i - 1))
    /\ [](InCrawl =>
            \A i \in 1..Len(queue) :
                \/ queue[i].depth = 0 /\ queue[i].url \in Range(seed_urls)
                \/ QueuedFromPage(queue[i].url, queue[i].depth, Len(fetchLog)))
    /\ [][\A e \in enqLog' \ enqLog :
            /\ e.kw \in Range(keywords_list)
            /\ Lower(e.kw) \in e.words
            /\ e.parent = cur.url
            /\ e.depth = cur.depth + 1
            /\ \E i \in 1..Len(queue') : queue'[i] = Task(e.url, e.depth)]_vars
    /\ [][\A t \in NewTasks :
            \/ pc = "crawl" /\ t.depth = 0 /\ t.url \in Range(seed_urls)
            \/ \E e \in enqLog' \ enqLog : t = Task(e.url, e.depth)]_vars

\* a page was fetched because a link to it held a keyword admitted from the
\* text of the page the link was on
C19_Witness ==
    /\ Len(fetchLog) = 2
    /\ fetchLog[2].depth = 1
    /\ \E e \in enqLog :
        /\ e.url = fetchLog[2].url
        /\ e.parent = fetchLog[1].url
        /\ e.kw \in admitted

\* C20: pages_crawled is the number of requests and the length of
\* found_links, found_links lists the visited URLs in request order without
\* duplicates, and a skipped task leaves the counter as it is.
C20_PagesCrawledCountsFetches ==
    /\ [](InCrawl =>
            /\ pages_crawled = Len(fetchLog)
            /\ pages_crawled = Len(found_links)
            /\ \A i \in 1..Len(found_links) : found_links[i] = fetchLog[i].url
            /\ Distinct(found_links)
            /\ Range(found_links) = visited)
    /\ [][pc' # "crashed" =>
            pages_crawled' = IF FetchStep THEN pages_crawled + 1 ELSE pages_crawled]_vars

\* a failed request was counted and a task was skipped without being counted
C20_Witness ==
    /\ pc = "done"
    /\ pages_crawled = 2
    /\ \E i \in 1..Len(fetchLog) : ~fetchLog[i].ok
    /\ \E t \in skipped : t.url \in visited

\* C18: the loop of crawl() is left, with the queue empty or the budget used
\* up (unless the process has died in a save).
C18_CrawlTerminates ==
    (pc = "loop") ~>
        \/ pc = "save" /\ (queue = <<>> \/ ~BudgetLeft)
        \/ pc = "crashed"

\* the loop ended on an empty queue with no page budget, after two pages that
\* link to each other
C18_Witness ==
    /\ pc = "save"
    /\ max_pages_per_run = None
    /\ queue = <<>>
    /\ Len(fetchLog) = 2
    /\ \E e \in enqLog : e.parent = fetchLog[1].url /\ e.url = fetchLog[2].url
    /\ fetchLog[1].url \in lastRejected
    /\ skipped # {}

\* the workers that are inside the `with keyword_lock` block of
\* discover_new_keywords
InLock == {w \in Workers : wpc[w] \in {"admit", "append", "save"}}

Occurrences(kws, kw) == Cardinality({i \in 1..Len(kws) : kws[i] = kw})

\* C17: at most one worker is inside the locked block of
\* discover_new_keywords, a keyword admitted by the workers is in the shared
\* vocabulary exactly once, and whenever no worker is inside the block (so
\* after the calls have returned) the file holds the vocabulary, every
\* admitted keyword included.
C17_AdmissionsSerialized ==
    /\ Cardinality(InLock) <= 1
    /\ \A kw \in admitted : Occurrences(keywords_list, kw) = 1
    /\ InLock = {} =>
        /\ file = ListFile(keywords_list)
        /\ admitted \subseteq Range(file.content)

\* one worker has admitted a keyword and left the block; the other holds the
\* lock with the same keyword next in its `discovered`, at the threshold
C17_Witness ==
    \E w1, w2 \in Workers :
        /\ w1 # w2
        /\ wpc[w1] \in {"links", "returned"}
        /\ wpc[w2] = "admit"
        /\ keyword_lock = w2
        /\ wdisc[w2] # <<>>
        /\ Head(wdisc[w2]).kw \in admitted
        /\ Head(wdisc[w2]).freq >= min_keyword_frequency
        /\ Occurrences(keywords_list, Head(wdisc[w2]).kw) = 1

=============================================================================
